---- MODULE Spec2Model ----
(***************************************************************************)
(* taggo: Exuberant-Ctags compatible tags for Go source (src/main.go).     *)
(*                                                                         *)
(* Strings and byte slices are sequences of byte values.  The syntax tree  *)
(* that go/parser hands to the program is a tree of records whose "k"      *)
(* field names the Go node type.                                           *)
(***************************************************************************)
EXTENDS Integers, Sequences, FiniteSets, TLC

VARIABLES
    files,      \* the package-level file list (main.go:42)
    tags,       \* the package-level tag list (main.go:43)
    parsed,     \* what parser.ParseFile yields for each file name
    disk,       \* the file system as os.Open sees it when a line is resolved
    pc,         \* position of the running function
    idx,        \* parseFiles: index of the next entry of files
    pkgs,       \* parseFiles: package name -> (file name -> *ast.File)
    first,      \* parseFiles: the retained error
    todoPkgs,   \* main: packages the outer range has not visited yet
    curPkg,     \* main: package of the running inner range
    todoFiles,  \* main: files of curPkg the inner range has not visited yet
    out,        \* standard output, one element per line
    call,       \* arguments of the function applied on its own
    ret         \* its result

vars == <<files, tags, parsed, disk, pc, idx, pkgs, first, todoPkgs, curPkg,
          todoFiles, out, call, ret>>

----------------------------------------------------------------------------
(* Bounds of the model *)

MaxLen == 4         \* bytes in a file handed to contentOfLine
MaxLine == 3        \* largest line number asked of contentOfLine
MaxFiles == 3       \* entries of the file list
MaxDepth == 2       \* nesting of a receiver type expression
MaxGroups == 2      \* field groups of a struct, method groups of an interface
MaxNames == 2       \* identifiers in one group or value spec

----------------------------------------------------------------------------
(* Bytes and strings *)

TAB == 9
NL == 10
DOT == 46

CLASS == 99
CONST == 100
FUNC == 102
MEMBER == 109
STRUCT == 115
TYPE == 116
VAR == 118

TAG_FILE_FORMAT == <<33, 95, 84, 65, 71, 95, 70, 73, 76, 69, 95, 70, 79, 82, 77, 65, 84, 9, 50>>
TAG_FILE_SORTED == <<33, 95, 84, 65, 71, 95, 70, 73, 76, 69, 95, 83, 79, 82, 84, 69, 68, 9, 49>>
TAG_PROGRAM_AUTHOR == <<33, 95, 84, 65, 71, 95, 80, 82, 79, 71, 82, 65, 77, 95, 65, 85, 84, 72, 79, 82, 9, 65, 114, 106, 101, 110, 32, 76, 97, 97, 114, 104, 111, 118, 101, 110>>
TAG_PROGRAM_NAME == <<33, 95, 84, 65, 71, 95, 80, 82, 79, 71, 82, 65, 77, 95, 78, 65, 77, 69, 9, 116, 97, 103, 103, 111>>
TAG_PROGRAM_URL == <<33, 95, 84, 65, 71, 95, 80, 82, 79, 71, 82, 65, 77, 95, 85, 82, 76, 9, 104, 116, 116, 112, 115, 58, 47, 47, 103, 105, 116, 104, 117, 98, 46, 99, 111, 109, 47, 65, 114, 106, 101, 110, 76, 47, 116, 97, 103, 103, 111>>

\* "class:" and "struct:" of the scope field
ClassPrefix == <<99, 108, 97, 115, 115, 58>>
StructPrefix == <<115, 116, 114, 117, 99, 116, 58>>

\* "/^" and "$/;\"" of the format string of emitTag
PatternOpen == <<47, 94>>
PatternClose == <<36, 47, 59, 34>>

\* Go's < on strings: byte-wise, a proper prefix is smaller
StringLess(a, b) ==
    LET n == IF Len(a) < Len(b) THEN Len(a) ELSE Len(b)
        diff == {i \in 1 .. n : a[i] # b[i]}
    IN  IF diff = {} THEN Len(a) < Len(b)
        ELSE LET i == CHOOSE d \in diff : \A e \in diff : d <= e
             IN  a[i] < b[i]

----------------------------------------------------------------------------
(* The file system *)

Unreadable == [ok |-> FALSE]
Readable(bytes) == [ok |-> TRUE, data |-> bytes]

\* the error values of this model
Nil == [k |-> "nil"]
EOF == [k |-> "io.EOF"]
ParseError(filename) == [k |-> "parse", Filename |-> filename]

\* bufio.Reader.ReadBytes(delim) at offset off of data: the bytes up to and
\* including the first delim, or, when there is none, the rest and io.EOF
ReadBytes(data, off, delim) ==
    LET hits == {i \in off + 1 .. Len(data) : data[i] = delim}
    IN  IF hits = {}
        THEN [cl |-> SubSeq(data, off + 1, Len(data)), err |-> EOF, off |-> Len(data)]
        ELSE LET i == CHOOSE h \in hits : \A g \in hits : h <= g
             IN  [cl |-> SubSeq(data, off + 1, i), err |-> Nil, off |-> i]

\* ScanLines returning the bytes read last, not "", when the file ends early
RECURSIVE ScanLinesKeepLast(_, _, _, _)
ScanLinesKeepLast(data, line, ln, off) ==
    LET r == ReadBytes(data, off, NL)
    IN  IF r.err = EOF /\ ln < line THEN r.cl
        ELSE IF ln = line
             THEN IF Len(r.cl) > 0 THEN SubSeq(r.cl, 1, Len(r.cl) - 1) ELSE r.cl
             ELSE ScanLinesKeepLast(data, line, ln + 1, r.off)

\* the for loop of contentOfLine, entered with line counter ln and the reader
\* at offset off
RECURSIVE ScanLines(_, _, _, _)
ScanLines(data, line, ln, off) ==
    LET r == ReadBytes(data, off, NL)
    IN  IF r.err = EOF /\ ln < line THEN <<>>
        ELSE IF ln = line
             THEN IF Len(r.cl) > 0 THEN SubSeq(r.cl, 1, Len(r.cl) - 1) ELSE r.cl
             ELSE ScanLines(data, line, ln + 1, r.off)

\* contentOfLine(line, file), for line >= 1 (the loop does not end for a
\* line number below 1; the positions of parsed nodes have line >= 1)
contentOfLine(line, file) ==
    IF ~disk[file].ok THEN <<>>
    ELSE ScanLines(disk[file].data, line, 1, 0)

\* token.FileSet.Position: a position of this model is its file and line
Position(pos) == [Filename |-> pos[1], Line |-> pos[2]]

\* fmt.Sprintf("%s\t%s\t/^%s$/;\"\t%c\t%s", tag, file, search, kind, extra)
FormatTag(tag, filename, searchString, kind, extra) ==
    tag \o <<TAB>> \o filename \o <<TAB>> \o PatternOpen \o searchString
        \o PatternClose \o <<TAB>> \o <<kind>> \o <<TAB>> \o extra

\* emitTag appends to the tag list t
emitTag(t, tag, pos, kind, extra) ==
    LET p == Position(pos)
        searchString == contentOfLine(p.Line, p.Filename)
    IN  Append(t, FormatTag(tag, p.Filename, searchString, kind, extra))

----------------------------------------------------------------------------
(* The syntax tree (go/ast) *)

Ident(name, pos) == [k |-> "Ident", Name |-> name, NamePos |-> pos]
StarExpr(x) == [k |-> "StarExpr", X |-> x]
SelectorExpr(x, sel) == [k |-> "SelectorExpr", X |-> x, Sel |-> sel]
ArrayType(pos) == [k |-> "ArrayType", Pos |-> pos]
Field(names) == [Names |-> names]
StructType(pos, fields) == [k |-> "StructType", Pos |-> pos, Fields |-> [List |-> fields]]
InterfaceType(pos, methods) == [k |-> "InterfaceType", Pos |-> pos, Methods |-> [List |-> methods]]
TypeSpec(name, type) == [k |-> "TypeSpec", Name |-> name, Type |-> type]
ValueSpec(names) == [k |-> "ValueSpec", Names |-> names]
ImportSpec == [k |-> "ImportSpec"]
GenDecl(tok, specs) == [k |-> "GenDecl", Tok |-> tok, Specs |-> specs]
FuncDecl(recv, name, pos) == [k |-> "FuncDecl", Recv |-> recv, Name |-> name, Pos |-> pos]
FieldList(type) == [List |-> <<[Type |-> type]>>]
BadDecl == [k |-> "BadDecl"]

\* ast.Node.Pos() of a type expression
ExprPos(e) == IF e.k = "Ident" THEN e.NamePos ELSE e.Pos

----------------------------------------------------------------------------
(* The declaration classifier *)

\* typeName without the StarExpr case
RECURSIVE typeNameNoDeref(_)
typeNameNoDeref(typ) ==
    IF typ.k = "Ident" THEN typ.Name
    ELSE IF typ.k = "SelectorExpr"
         THEN typeNameNoDeref(typ.X) \o <<DOT>> \o typ.Sel.Name
         ELSE <<>>

RECURSIVE typeName(_)
typeName(typ) ==
    LET t == IF typ.k = "StarExpr" THEN typ.X ELSE typ
    IN  IF t.k = "Ident" THEN t.Name
        ELSE IF t.k = "SelectorExpr"
             THEN typeName(t.X) \o <<DOT>> \o t.Sel.Name
             ELSE <<>>

funcDecl(t, decl) ==
    LET recvType == IF decl.Recv # Nil
                    THEN ClassPrefix \o typeName(decl.Recv.List[1].Type)
                    ELSE <<>>
    IN  emitTag(t, decl.Name.Name, decl.Pos, FUNC, recvType)

\* for _, m := range names { emitTag(m.Name, m.Pos(), fset, kind, extra) }
RECURSIVE EmitNames(_, _, _, _)
EmitNames(t, names, kind, extra) ==
    IF names = <<>> THEN t
    ELSE EmitNames(emitTag(t, Head(names).Name, Head(names).NamePos, kind, extra),
                   Tail(names), kind, extra)

\* for _, f := range list { for _, m := range f.Names { emitTag(...) } }
RECURSIVE EmitFields(_, _, _, _)
EmitFields(t, list, kind, extra) ==
    IF list = <<>> THEN t
    ELSE EmitFields(EmitNames(t, Head(list).Names, kind, extra), Tail(list), kind, extra)

\* typeSpec tagging f.Names[0] only
typeSpecFirstNameOnly(t, spec) ==
    LET st == spec.Type
        firsts(list) == [i \in 1 .. Len(list) |->
                           Field(IF list[i].Names = <<>> THEN <<>>
                                 ELSE <<Head(list[i].Names)>>)]
    IN  IF st.k = "StructType"
        THEN EmitFields(emitTag(t, spec.Name.Name, ExprPos(st), STRUCT, <<>>),
                        firsts(st.Fields.List), MEMBER, StructPrefix \o spec.Name.Name)
        ELSE IF st.k = "InterfaceType"
        THEN EmitFields(emitTag(t, spec.Name.Name, ExprPos(st), CLASS, <<>>),
                        firsts(st.Methods.List), FUNC, ClassPrefix \o spec.Name.Name)
        ELSE emitTag(t, spec.Name.Name, ExprPos(st), TYPE, <<>>)

\* typeSpec with the interface branch a copy of the struct branch
typeSpecMethodsAsMembers(t, spec) ==
    LET st == spec.Type
    IN  IF st.k = "StructType"
        THEN EmitFields(emitTag(t, spec.Name.Name, ExprPos(st), STRUCT, <<>>),
                        st.Fields.List, MEMBER, StructPrefix \o spec.Name.Name)
        ELSE IF st.k = "InterfaceType"
        THEN EmitFields(emitTag(t, spec.Name.Name, ExprPos(st), CLASS, <<>>),
                        st.Methods.List, MEMBER, StructPrefix \o spec.Name.Name)
        ELSE emitTag(t, spec.Name.Name, ExprPos(st), TYPE, <<>>)

typeSpec(t, spec) ==
    LET st == spec.Type
    IN  IF st.k = "StructType"
        THEN EmitFields(emitTag(t, spec.Name.Name, ExprPos(st), STRUCT, <<>>),
                        st.Fields.List, MEMBER, StructPrefix \o spec.Name.Name)
        ELSE IF st.k = "InterfaceType"
        THEN EmitFields(emitTag(t, spec.Name.Name, ExprPos(st), CLASS, <<>>),
                        st.Methods.List, FUNC, ClassPrefix \o spec.Name.Name)
        ELSE emitTag(t, spec.Name.Name, ExprPos(st), TYPE, <<>>)

\* the zero value of "var kind rune" unless the keyword is const or var
ValueKind(tok) == IF tok = "const" THEN CONST ELSE IF tok = "var" THEN VAR ELSE 0

RECURSIVE GenSpecs(_, _, _)
GenSpecs(t, tok, specs) ==
    IF specs = <<>> THEN t
    ELSE LET nt == Head(specs)
             t1 == IF nt.k = "TypeSpec" THEN typeSpec(t, nt)
                   ELSE IF nt.k = "ValueSpec"
                        THEN EmitNames(t, nt.Names, ValueKind(tok), <<>>)
                        ELSE t
         IN  GenSpecs(t1, tok, Tail(specs))

genDecl(t, decl) == GenSpecs(t, decl.Tok, decl.Specs)

RECURSIVE handleDecls(_, _)
handleDecls(t, decls) ==
    IF decls = <<>> THEN t
    ELSE LET decl == Head(decls)
             t1 == IF decl.k = "FuncDecl" THEN funcDecl(t, decl)
                   ELSE IF decl.k = "GenDecl" THEN genDecl(t, decl)
                        ELSE t
         IN  handleDecls(t1, Tail(decls))

----------------------------------------------------------------------------
(* parseFiles and main *)

\* one round of the loop of parseFiles over files, on [pkgs, first], with
\* the last failure kept instead of the first
ParseStepKeepLast(st, filename) ==
    LET src == parsed[filename]
    IN  IF src.ok
        THEN LET name == src.Name
                 pkg == IF name \in DOMAIN st.pkgs THEN st.pkgs[name]
                        ELSE [Name |-> name, Files |-> <<>>]
             IN  [pkgs |-> (name :> [pkg EXCEPT !.Files = (filename :> src) @@ @])
                              @@ st.pkgs,
                  first |-> st.first]
        ELSE [pkgs |-> st.pkgs, first |-> ParseError(filename)]

\* one round of the loop of parseFiles over files, on [pkgs, first]
ParseStep(st, filename) ==
    LET src == parsed[filename]
    IN  IF src.ok
        THEN LET name == src.Name
                 pkg == IF name \in DOMAIN st.pkgs THEN st.pkgs[name]
                        ELSE [Name |-> name, Files |-> <<>>]
             IN  [pkgs |-> (name :> [pkg EXCEPT !.Files = (filename :> src) @@ @])
                              @@ st.pkgs,
                  first |-> st.first]
        ELSE IF st.first = Nil
             THEN [pkgs |-> st.pkgs, first |-> ParseError(filename)]
             ELSE st

RECURSIVE InsertSorted(_, _)
InsertSorted(s, x) ==
    IF s = <<>> THEN <<x>>
    ELSE IF StringLess(x, Head(s)) THEN <<x>> \o s
    ELSE <<Head(s)>> \o InsertSorted(Tail(s), x)

\* main without its call of sort.Strings
SortStringsNone(s) == s

\* a sort that keeps one of each string
RECURSIVE SortStringsUnique(_)
SortStringsUnique(s) ==
    IF s = <<>> THEN <<>>
    ELSE LET rest == SortStringsUnique(Tail(s))
         IN  IF \E i \in 1 .. Len(rest) : rest[i] = Head(s) THEN rest
             ELSE InsertSorted(rest, Head(s))

\* sort.Strings: the strings of s in increasing order
RECURSIVE SortStrings(_)
SortStrings(s) ==
    IF s = <<>> THEN <<>> ELSE InsertSorted(SortStrings(Tail(s)), Head(s))

TagsHeader ==
    <<TAG_FILE_FORMAT, TAG_FILE_SORTED, TAG_PROGRAM_AUTHOR, TAG_PROGRAM_NAME,
      TAG_PROGRAM_URL>>

\* parseFiles, one file of the list
ParseFile ==
    /\ pc = "parseFiles"
    /\ idx <= Len(files)
    /\ LET st == ParseStep([pkgs |-> pkgs, first |-> first], files[idx])
       IN  /\ pkgs' = st.pkgs
           /\ first' = st.first
    /\ idx' = idx + 1
    /\ UNCHANGED <<files, tags, parsed, disk, pc, todoPkgs, curPkg, todoFiles, out,
                   call, ret>>

\* parseFiles returns; main starts to range over pkgs
ParseReturn ==
    /\ pc = "parseFiles"
    /\ idx > Len(files)
    /\ pc' = "range"
    /\ todoPkgs' = DOMAIN pkgs
    /\ UNCHANGED <<files, tags, parsed, disk, idx, pkgs, first, curPkg, todoFiles,
                   out, call, ret>>

\* the outer range yields a package, in no given order
RangePkg ==
    /\ pc = "range"
    /\ todoFiles = {}
    /\ \E name \in todoPkgs :
          /\ curPkg' = name
          /\ todoPkgs' = todoPkgs \ {name}
          /\ todoFiles' = DOMAIN pkgs[name].Files
    /\ UNCHANGED <<files, tags, parsed, disk, pc, idx, pkgs, first, out, call, ret>>

\* the inner range yields a file, in no given order, and handleDecls runs
RangeFile ==
    /\ pc = "range"
    /\ \E filename \in todoFiles :
          /\ tags' = handleDecls(tags, pkgs[curPkg].Files[filename].Decls)
          /\ todoFiles' = todoFiles \ {filename}
    /\ UNCHANGED <<files, parsed, disk, pc, idx, pkgs, first, todoPkgs, curPkg, out,
                   call, ret>>

Sort ==
    /\ pc = "range"
    /\ todoFiles = {}
    /\ todoPkgs = {}
    /\ tags' = SortStrings(tags)
    /\ pc' = "header"
    /\ UNCHANGED <<files, parsed, disk, idx, pkgs, first, todoPkgs, curPkg, todoFiles,
                   out, call, ret>>

printTagsHeader ==
    /\ pc = "header"
    /\ out' = out \o TagsHeader
    /\ pc' = "print"
    /\ idx' = 1
    /\ UNCHANGED <<files, tags, parsed, disk, pkgs, first, todoPkgs, curPkg, todoFiles,
                   call, ret>>

\* one round of the loop that prints tags
PrintTag ==
    /\ pc = "print"
    /\ idx <= Len(tags)
    /\ out' = Append(out, tags[idx])
    /\ idx' = idx + 1
    /\ UNCHANGED <<files, tags, parsed, disk, pc, pkgs, first, todoPkgs, curPkg,
                   todoFiles, call, ret>>

Exit ==
    /\ pc = "print"
    /\ idx > Len(tags)
    /\ pc' = "done"
    /\ UNCHANGED <<files, tags, parsed, disk, idx, pkgs, first, todoPkgs, curPkg,
                   todoFiles, out, call, ret>>

----------------------------------------------------------------------------
(* Values the models draw their inputs from *)

FileA == <<97, 46, 103, 111>>       \* "a.go"
FileB == <<98, 46, 103, 111>>       \* "b.go"
FileC == <<99, 46, 103, 111>>       \* "c.go"
FileNames == {FileA, FileB, FileC}

Alphabet == {NL, 97, 98}

\* all sequences over S of length at most n
RECURSIVE SeqsUpTo(_, _)
SeqsUpTo(S, n) ==
    IF n = 0 THEN {<<>>}
    ELSE LET shorter == SeqsUpTo(S, n - 1)
         IN  shorter \cup {Append(q, x) : q \in {r \in shorter : Len(r) = n - 1}, x \in S}

NoCall == [fn |-> "none"]

----------------------------------------------------------------------------
(* SpecLine: contentOfLine and emitTag applied to one line of one file *)

InitLine ==
    /\ \E c \in {Readable(b) : b \in SeqsUpTo(Alphabet, MaxLen)} \cup {Unreadable} :
          disk = (FileA :> c)
    /\ \E l \in 1 .. MaxLine, kind \in {FUNC, VAR}, extra \in {<<>>, ClassPrefix \o <<84>>} :
          call = [line |-> l, file |-> FileA, tag |-> <<120>>, kind |-> kind, extra |-> extra]
    /\ pc = "start"
    /\ ret = <<>>
    /\ tags = <<>>
    /\ files = <<>>
    /\ parsed = <<>>
    /\ idx = 1
    /\ pkgs = <<>>
    /\ first = Nil
    /\ todoPkgs = {}
    /\ curPkg = <<>>
    /\ todoFiles = {}
    /\ out = <<>>

CallContentOfLine ==
    /\ pc = "start"
    /\ ret' = contentOfLine(call.line, call.file)
    /\ pc' = "returned"
    /\ UNCHANGED <<files, tags, parsed, disk, idx, pkgs, first, todoPkgs, curPkg,
                   todoFiles, out, call>>

CallEmitTag ==
    /\ pc = "start"
    /\ tags' = emitTag(tags, call.tag, <<call.file, call.line>>, call.kind, call.extra)
    /\ pc' = "emitted"
    /\ UNCHANGED <<files, parsed, disk, idx, pkgs, first, todoPkgs, curPkg,
                   todoFiles, out, call, ret>>

NextLine == CallContentOfLine \/ CallEmitTag

SpecLine == InitLine /\ [][NextLine]_vars

----------------------------------------------------------------------------
(* What a file's lines are, for the statements about contentOfLine *)

NewlinesOf(data) == {i \in 1 .. Len(data) : data[i] = NL}

\* number of lines: every newline ends one, and so does the end of a file
\* whose last byte is no newline
LineCount(data) ==
    Cardinality(NewlinesOf(data))
        + (IF data # <<>> /\ data[Len(data)] # NL THEN 1 ELSE 0)

\* index of the n-th newline, 0 for n = 0 and Len(data) + 1 when there is none
NthNewline(data, n) ==
    IF n = 0 THEN 0
    ELSE IF n > Cardinality(NewlinesOf(data)) THEN Len(data) + 1
    ELSE CHOOSE i \in NewlinesOf(data) :
             Cardinality({j \in NewlinesOf(data) : j <= i}) = n

\* line k without its terminator
LineText(data, k) ==
    SubSeq(data, NthNewline(data, k - 1) + 1, NthNewline(data, k) - 1)

\* C1: for a readable file and 1 <= k <= number of lines, contentOfLine(k, file)
\* is exactly line k without its terminator, also when line k is the last line
\* and no newline ends the file.
C1_LineReturnedWhole ==
    (pc = "returned" /\ disk[call.file].ok
        /\ call.line <= LineCount(disk[call.file].data))
    => ret = LineText(disk[call.file].data, call.line)

\* the file cannot be opened, or has fewer lines than asked for
LineMissing ==
    \/ ~disk[call.file].ok
    \/ call.line > LineCount(disk[call.file].data)

\* C8: when the file cannot be opened or has fewer lines than asked for,
\* contentOfLine returns the empty byte sequence, and emitTag still appends
\* exactly one record, whose pattern is /^$/.
C8_MissingLineGivesEmptyPattern ==
    /\ (pc = "returned" /\ LineMissing) => ret = <<>>
    /\ (pc = "emitted" /\ LineMissing) =>
          tags = << call.tag \o <<9>> \o call.file
                        \o <<9, 47, 94, 36, 47, 59, 34, 9, call.kind, 9>> \o call.extra >>

C8_Witness ==
    /\ pc = "emitted"
    /\ disk[call.file].ok
    /\ LineCount(disk[call.file].data) >= 1
    /\ call.line > LineCount(disk[call.file].data)
    /\ Len(tags) = 1

----------------------------------------------------------------------------
(* SpecDecls: handleDecls applied to one declaration list of file a.go *)

TypeNames == {<<84>>, <<85>>}       \* "T", "U"

\* receiver type expressions nested at most d deep
RECURSIVE TypeExprs(_)
TypeExprs(d) ==
    IF d = 0
    THEN {Ident(n, <<FileA, 1>>) : n \in TypeNames} \cup {ArrayType(<<FileA, 1>>)}
    ELSE LET sub == TypeExprs(d - 1)
         IN  sub \cup {StarExpr(x) : x \in sub}
                 \cup {SelectorExpr(x, Ident(n, <<FileA, 1>>)) : x \in sub, n \in TypeNames}

\* "x" on line 1 and "y" on line 2
FieldIdents == {Ident(<<120>>, <<FileA, 1>>), Ident(<<121>>, <<FileA, 2>>)}

NameLists == SeqsUpTo(FieldIdents, MaxNames)
FieldLists == SeqsUpTo({Field(n) : n \in NameLists}, MaxGroups)

TypeIdents == {Ident(<<84>>, <<FileA, 1>>), Ident(<<85>>, <<FileA, 2>>)}

TypeSpecs ==
    {TypeSpec(n, StructType(n.NamePos, l)) : n \in TypeIdents, l \in FieldLists}
        \cup {TypeSpec(n, InterfaceType(n.NamePos, l)) : n \in TypeIdents, l \in FieldLists}
        \cup {TypeSpec(n, ArrayType(n.NamePos)) : n \in TypeIdents}
        \cup {TypeSpec(n, Ident(<<85>>, n.NamePos)) : n \in TypeIdents}

\* go/parser builds value specs under const and var only; a tree built by
\* hand can hold them under any keyword
Toks == {"import", "const", "type", "var"}

SmallSpecs ==
    {ValueSpec(<<Ident(<<120>>, <<FileA, 1>>)>>),
     TypeSpec(Ident(<<84>>, <<FileA, 2>>),
              StructType(<<FileA, 2>>, <<Field(<<Ident(<<121>>, <<FileA, 2>>)>>)>>)),
     ImportSpec}

GenDecls ==
    {GenDecl("type", <<ts>>) : ts \in TypeSpecs}
        \cup {GenDecl(tok, <<ValueSpec(n)>>) : tok \in Toks, n \in NameLists}
        \cup {GenDecl(tok, <<s1, s2>>) : tok \in Toks, s1 \in SmallSpecs, s2 \in SmallSpecs}

FuncDecls ==
    {FuncDecl(r, Ident(<<102>>, <<FileA, 1>>), <<FileA, 1>>) :
        r \in {Nil} \cup {FieldList(e) : e \in TypeExprs(MaxDepth)}}

SmallDecls ==
    {FuncDecl(Nil, Ident(<<102>>, <<FileA, 1>>), <<FileA, 1>>),
     FuncDecl(FieldList(StarExpr(Ident(<<84>>, <<FileA, 2>>))),
              Ident(<<102>>, <<FileA, 2>>), <<FileA, 2>>),
     GenDecl("var", <<ValueSpec(<<Ident(<<120>>, <<FileA, 1>>)>>)>>),
     BadDecl}

DeclLists ==
    {<<d>> : d \in GenDecls \cup FuncDecls \cup {BadDecl}}
        \cup {<<d1, d2>> : d1 \in SmallDecls, d2 \in SmallDecls}

InitDecls ==
    /\ disk = (FileA :> Readable(<<97, 10, 98, 10>>))
    /\ \E l \in DeclLists : call = [decls |-> l]
    /\ pc = "start"
    /\ ret = <<>>
    /\ tags = <<>>
    /\ files = <<>>
    /\ parsed = <<>>
    /\ idx = 1
    /\ pkgs = <<>>
    /\ first = Nil
    /\ todoPkgs = {}
    /\ curPkg = <<>>
    /\ todoFiles = {}
    /\ out = <<>>

CallHandleDecls ==
    /\ pc = "start"
    /\ tags' = handleDecls(tags, call.decls)
    /\ pc' = "done"
    /\ UNCHANGED <<files, parsed, disk, idx, pkgs, first, todoPkgs, curPkg,
                   todoFiles, out, call, ret>>

NextDecls == CallHandleDecls

SpecDecls == InitDecls /\ [][NextDecls]_vars

----------------------------------------------------------------------------
(* The fields of a tag line, read back from its bytes *)

TabsOf(line) == {i \in 1 .. Len(line) : line[i] = 9}
FirstTab(line) == CHOOSE i \in TabsOf(line) : \A j \in TabsOf(line) : i <= j
LastTab(line) == CHOOSE i \in TabsOf(line) : \A j \in TabsOf(line) : j <= i

TagName(line) == SubSeq(line, 1, FirstTab(line) - 1)
TagKind(line) == line[LastTab(line) - 1]
TagScope(line) == SubSeq(line, LastTab(line) + 1, Len(line))
\* the file name: between the first tab and the next one
TagFile(line) ==
    LET rest == SubSeq(line, FirstTab(line) + 1, Len(line))
    IN  SubSeq(rest, 1, FirstTab(rest) - 1)

\* the identifiers of all groups of a field list, in order
RECURSIVE NamedIdents(_)
NamedIdents(list) ==
    IF list = <<>> THEN <<>> ELSE Head(list).Names \o NamedIdents(Tail(list))

\* the only declaration of the list is one type spec of node type k
OneTypeSpec(k) ==
    /\ pc = "done"
    /\ Len(call.decls) = 1
    /\ call.decls[1].k = "GenDecl"
    /\ Len(call.decls[1].Specs) = 1
    /\ call.decls[1].Specs[1].k = "TypeSpec"
    /\ call.decls[1].Specs[1].Type.k = k

\* C3: a struct type T with N field identifiers over all its groups gives one
\* 's' tag named T with empty scope, then N 'm' tags, one per identifier, each
\* with scope struct:T; a group without names gives no tag.
C3_StructTags ==
    OneTypeSpec("StructType") =>
        LET spec == call.decls[1].Specs[1]
            ids == NamedIdents(spec.Type.Fields.List)
        IN  /\ Len(tags) = 1 + Len(ids)
            /\ TagName(tags[1]) = spec.Name.Name
            /\ TagKind(tags[1]) = 115
            /\ TagScope(tags[1]) = <<>>
            /\ \A i \in 1 .. Len(ids) :
                  /\ TagName(tags[i + 1]) = ids[i].Name
                  /\ TagKind(tags[i + 1]) = 109
                  /\ TagScope(tags[i + 1]) = <<115, 116, 114, 117, 99, 116, 58>> \o spec.Name.Name

C3_Witness ==
    /\ OneTypeSpec("StructType")
    /\ Len(call.decls[1].Specs[1].Type.Fields.List) = 2
    /\ call.decls[1].Specs[1].Type.Fields.List[1].Names = <<>>
    /\ Len(call.decls[1].Specs[1].Type.Fields.List[2].Names) = 2
    /\ Len(tags) = 3

\* C4: an interface type T with M method identifiers over all its groups gives
\* one 'c' tag named T with empty scope, then M 'f' tags, one per identifier,
\* each with scope class:T; an embedded interface gives no tag.
C4_InterfaceTags ==
    OneTypeSpec("InterfaceType") =>
        LET spec == call.decls[1].Specs[1]
            ids == NamedIdents(spec.Type.Methods.List)
        IN  /\ Len(tags) = 1 + Len(ids)
            /\ TagName(tags[1]) = spec.Name.Name
            /\ TagKind(tags[1]) = 99
            /\ TagScope(tags[1]) = <<>>
            /\ \A i \in 1 .. Len(ids) :
                  /\ TagName(tags[i + 1]) = ids[i].Name
                  /\ TagKind(tags[i + 1]) = 102
                  /\ TagScope(tags[i + 1]) = <<99, 108, 97, 115, 115, 58>> \o spec.Name.Name

C4_Witness ==
    /\ OneTypeSpec("InterfaceType")
    /\ Len(call.decls[1].Specs[1].Type.Methods.List) = 2
    /\ call.decls[1].Specs[1].Type.Methods.List[2].Names = <<>>
    /\ Len(call.decls[1].Specs[1].Type.Methods.List[1].Names) = 2
    /\ Len(tags) = 3

RECURSIVE IsChain(_)
IsChain(e) ==
    \/ e.k = "Ident"
    \/ e.k = "SelectorExpr" /\ IsChain(e.X)

\* the identifiers of a chain, outermost package first
RECURSIVE ChainNames(_)
ChainNames(e) ==
    IF e.k = "Ident" THEN <<e.Name>> ELSE Append(ChainNames(e.X), e.Sel.Name)

\* names joined by "."
RECURSIVE Dotted(_)
Dotted(names) ==
    IF Len(names) = 1 THEN names[1]
    ELSE names[1] \o <<46>> \o Dotted(Tail(names))

\* the only declaration of the list is a function declaration
OneFuncDecl ==
    /\ pc = "done"
    /\ Len(call.decls) = 1
    /\ call.decls[1].k = "FuncDecl"

\* C2: a method with receiver *T gets scope class:T, as with receiver T, where
\* T is an identifier or a selector chain of any depth, written dotted; one
\* level of indirection is stripped, not two; without receiver the scope is
\* empty.
C2_ReceiverScope ==
    OneFuncDecl =>
        LET d == call.decls[1]
            typ == d.Recv.List[1].Type
            class == <<99, 108, 97, 115, 115, 58>>
        IN  /\ Len(tags) = 1
            /\ TagKind(tags[1]) = 102
            /\ d.Recv = Nil => TagScope(tags[1]) = <<>>
            /\ (d.Recv # Nil /\ IsChain(typ)) =>
                  TagScope(tags[1]) = class \o Dotted(ChainNames(typ))
            /\ (d.Recv # Nil /\ typ.k = "StarExpr" /\ IsChain(typ.X)) =>
                  /\ TagScope(tags[1]) = class \o Dotted(ChainNames(typ.X))
                  /\ tags = funcDecl(<<>>, [d EXCEPT !.Recv = FieldList(typ.X)])
            /\ (d.Recv # Nil /\ typ.k = "StarExpr" /\ typ.X.k = "StarExpr") =>
                  TagScope(tags[1]) = class

C2_Witness ==
    /\ OneFuncDecl
    /\ call.decls[1].Recv # Nil
    /\ call.decls[1].Recv.List[1].Type.k = "StarExpr"
    /\ call.decls[1].Recv.List[1].Type.X.k = "SelectorExpr"
    /\ TagScope(tags[1]) = <<99, 108, 97, 115, 115, 58, 84, 46, 85>>

----------------------------------------------------------------------------
(* Spec: main on a file list, the files as go/parser reads them *)

PkgP == <<112>>
PkgQ == <<113>>

\* func F() on line 1; var x, x on line 2
DeclsFunc(f) ==
    <<FuncDecl(Nil, Ident(<<70>>, <<f, 1>>), <<f, 1>>),
      GenDecl("var", <<ValueSpec(<<Ident(<<120>>, <<f, 2>>), Ident(<<120>>, <<f, 2>>)>>)>>)>>

\* type T struct { x, y; U } on line 1; func (t *T) F() on line 2
DeclsStruct(f) ==
    <<GenDecl("type",
        <<TypeSpec(Ident(<<84>>, <<f, 1>>),
                   StructType(<<f, 1>>,
                              <<Field(<<Ident(<<120>>, <<f, 1>>), Ident(<<121>>, <<f, 1>>)>>),
                                Field(<<>>)>>))>>),
      FuncDecl(FieldList(StarExpr(Ident(<<84>>, <<f, 2>>))), Ident(<<70>>, <<f, 2>>),
               <<f, 2>>)>>

\* import; const c on line 3; type I interface { F() } on line 1
DeclsInterface(f) ==
    <<GenDecl("import", <<ImportSpec>>),
      GenDecl("const", <<ValueSpec(<<Ident(<<99>>, <<f, 3>>)>>)>>),
      GenDecl("type",
        <<TypeSpec(Ident(<<73>>, <<f, 1>>),
                   InterfaceType(<<f, 1>>, <<Field(<<Ident(<<70>>, <<f, 1>>)>>)>>))>>)>>

\* the file when its lines are resolved: as it was parsed, or gone
AsParsed == Readable(<<97, 10, 98, 98, 10, 99>>)

\* what parser.ParseFile can yield for file f, and the file afterwards
Sources(f) ==
    {[parse |-> [ok |-> FALSE], disk |-> AsParsed],
     [parse |-> [ok |-> TRUE, Name |-> PkgP, Decls |-> DeclsFunc(f)], disk |-> AsParsed],
     [parse |-> [ok |-> TRUE, Name |-> PkgP, Decls |-> DeclsFunc(f)], disk |-> Unreadable],
     [parse |-> [ok |-> TRUE, Name |-> PkgQ, Decls |-> DeclsStruct(f)], disk |-> AsParsed],
     [parse |-> [ok |-> TRUE, Name |-> PkgP, Decls |-> DeclsInterface(f)], disk |-> AsParsed]}

Range(s) == {s[i] : i \in 1 .. Len(s)}

Init ==
    /\ files \in SeqsUpTo(FileNames, MaxFiles)
    /\ \E src \in [Range(files) -> UNION {Sources(f) : f \in FileNames}] :
          /\ \A f \in Range(files) : src[f] \in Sources(f)
          /\ parsed = [f \in Range(files) |-> src[f].parse]
          /\ disk = [f \in Range(files) |-> src[f].disk]
    /\ tags = <<>>
    /\ pc = "parseFiles"
    /\ idx = 1
    /\ pkgs = <<>>
    /\ first = Nil
    /\ todoPkgs = {}
    /\ curPkg = <<>>
    /\ todoFiles = {}
    /\ out = <<>>
    /\ call = NoCall
    /\ ret = <<>>

Next ==
    \/ ParseFile
    \/ ParseReturn
    \/ RangePkg
    \/ RangeFile
    \/ Sort
    \/ printTagsHeader
    \/ PrintTag
    \/ Exit

Spec == Init /\ [][Next]_vars

----------------------------------------------------------------------------
(* Statements about main *)

\* the lines of out after the header
Body == SubSeq(out, 6, Len(out))

\* C5: the tag lines written are in byte-wise order; they are written after
\* the five header lines, from a tag list that was sorted after the last file
\* was handled.
C5_OutputSorted ==
    /\ \A i \in 1 .. Len(Body) : \A j \in 1 .. Len(Body) :
          i < j => ~StringLess(Body[j], Body[i])
    /\ out # <<>> =>
          /\ pc \in {"print", "done"}
          /\ Len(out) >= 5
          /\ SubSeq(out, 1, 5) = <<TAG_FILE_FORMAT, TAG_FILE_SORTED, TAG_PROGRAM_AUTHOR,
                                   TAG_PROGRAM_NAME, TAG_PROGRAM_URL>>
          /\ Body = SubSeq(tags, 1, Len(out) - 5)
    /\ pc \in {"header", "print", "done"} => todoPkgs = {} /\ todoFiles = {}
    /\ pc = "done" => Len(out) = 5 + Len(tags)

C5_Witness ==
    /\ pc = "done"
    /\ Len(out) >= 8
    /\ \E i \in 6 .. Len(out) - 1 : StringLess(out[i], out[i + 1])
    /\ Cardinality(Range(files)) >= 2

\* the files of the list that parse
ParsedFiles == {f \in Range(files) : parsed[f].ok}

\* the tags of a set of files, the files taken in increasing order of name
RECURSIVE TagsOfFiles(_)
TagsOfFiles(S) ==
    IF S = {} THEN <<>>
    ELSE LET f == CHOOSE g \in S : \A h \in S : ~StringLess(h, g)
         IN  handleDecls(<<>>, parsed[f].Decls) \o TagsOfFiles(S \ {f})

\* C6: what is printed is a function of the set of input files and of their
\* content: whatever order the packages and files were visited in, the output
\* is the header and the sorted tags of the files taken in order of name.
C6_OutputDeterministic ==
    pc = "done" =>
        out = <<TAG_FILE_FORMAT, TAG_FILE_SORTED, TAG_PROGRAM_AUTHOR, TAG_PROGRAM_NAME,
                TAG_PROGRAM_URL>> \o SortStrings(TagsOfFiles(ParsedFiles))

C6_Witness ==
    /\ pc = "done"
    /\ Cardinality(ParsedFiles) >= 2
    /\ Cardinality(DOMAIN pkgs) = 2
    /\ Len(out) > 5

\* number of lines of s equal to x
RECURSIVE Occurrences(_, _)
Occurrences(s, x) ==
    IF s = <<>> THEN 0
    ELSE (IF Head(s) = x THEN 1 ELSE 0) + Occurrences(Tail(s), x)

\* entries of the file list that parseFiles has gone through
Visited == IF pc = "parseFiles" THEN idx - 1 ELSE Len(files)

\* C9: a file that fails to parse gives no tag and does not stop the run: every
\* file of the list that parses has all its tags in the output, wherever the
\* failing file stands; parseFiles retains the failure of the first failing
\* file in list order, nil when none fails.
C9_ParseFailureSkipsFile ==
    /\ LET failing == {i \in 1 .. Visited : ~parsed[files[i]].ok}
       IN  first = IF failing = {} THEN Nil
                   ELSE ParseError(files[CHOOSE i \in failing : \A j \in failing : i <= j])
    /\ pc = "done" =>
          \A f \in Range(files) :
              LET own == handleDecls(<<>>, parsed[f].Decls)
                  lines == {i \in 6 .. Len(out) : TagFile(out[i]) = f}
              IN  IF parsed[f].ok
                  THEN /\ Cardinality(lines) = Len(own)
                       /\ \A i \in 1 .. Len(own) :
                             Occurrences(out, own[i]) = Occurrences(own, own[i])
                  ELSE lines = {}

C9_Witness ==
    /\ pc = "done"
    /\ Len(files) = 3
    /\ ~parsed[files[1]].ok
    /\ parsed[files[2]].ok
    /\ ~parsed[files[3]].ok
    /\ files[3] # files[1]
    /\ first = ParseError(files[1])
    /\ Len(out) > 5

\* the symbols the classifier recognizes in a declaration list
SymbolsOfSpec(spec) ==
    IF spec.k = "ValueSpec" THEN Len(spec.Names)
    ELSE IF spec.k # "TypeSpec" THEN 0
    ELSE IF spec.Type.k = "StructType" THEN 1 + Len(NamedIdents(spec.Type.Fields.List))
    ELSE IF spec.Type.k = "InterfaceType" THEN 1 + Len(NamedIdents(spec.Type.Methods.List))
    ELSE 1

RECURSIVE SymbolsOfSpecs(_)
SymbolsOfSpecs(specs) ==
    IF specs = <<>> THEN 0 ELSE SymbolsOfSpec(Head(specs)) + SymbolsOfSpecs(Tail(specs))

RECURSIVE SymbolsOfDecls(_)
SymbolsOfDecls(decls) ==
    IF decls = <<>> THEN 0
    ELSE (IF Head(decls).k = "FuncDecl" THEN 1
          ELSE IF Head(decls).k = "GenDecl" THEN SymbolsOfSpecs(Head(decls).Specs)
          ELSE 0) + SymbolsOfDecls(Tail(decls))

\* symbols summed over the entries of the file list that parse
RECURSIVE SymbolsOfEntries(_)
SymbolsOfEntries(list) ==
    IF list = <<>> THEN 0
    ELSE (IF parsed[Head(list)].ok THEN SymbolsOfDecls(parsed[Head(list)].Decls) ELSE 0)
             + SymbolsOfEntries(Tail(list))

\* symbols summed over a set of file names
RECURSIVE SymbolsOfNames(_)
SymbolsOfNames(S) ==
    IF S = {} THEN 0
    ELSE LET f == CHOOSE g \in S : TRUE
         IN  SymbolsOfDecls(parsed[f].Decls) + SymbolsOfNames(S \ {f})

\* C10 as claimed: the number of tag lines written is the number of recognized
\* symbols summed over all entries of the file list that parse.
C10_LinePerSymbolPerEntry ==
    pc = "done" => Len(out) - 5 = SymbolsOfEntries(files)

\* C10 amended: the number of tag lines written is the number of recognized
\* symbols summed over the distinct names of the file list that parse (a name
\* listed more than once is handled once); no line is merged or dropped, also
\* when two symbols have the same name or two lines are identical.
C10_LinePerSymbolPerName ==
    pc = "done" => Len(out) - 5 = SymbolsOfNames(ParsedFiles)

C10_Witness ==
    /\ pc = "done"
    /\ Cardinality(ParsedFiles) = 2
    /\ \E i \in 6 .. Len(out) - 1 : out[i] = out[i + 1]
    /\ \E i \in 6 .. Len(out) : \E j \in 6 .. Len(out) :
          /\ TagName(out[i]) = TagName(out[j])
          /\ TagFile(out[i]) # TagFile(out[j])

====
